---- MODULE Spec2Model ----
(***************************************************************************)
(* Model of codex_context/context_window_chart_v5.py: the pipeline that    *)
(* main() runs for one session file.                                       *)
(*                                                                         *)
(*   extract_session_data  ->  skip when there is no token data, else      *)
(*                             generate_html: match user messages, build   *)
(*                             index_to_ts, compute cost and duration      *)
(*                                                                         *)
(* Timestamps: the 'ts' string of a record is represented by the instant   *)
(* it denotes, counted in microseconds (the resolution of                  *)
(* datetime.fromisoformat); 'ts_ms' is the parsed epoch-millisecond value. *)
(* Instants are counted from the start of the session, not from 1970.      *)
(***************************************************************************)
EXTENDS Integers, Sequences, FiniteSets, TLC

\* ---------------------------------------------------------------- bounds
\* longest session file, in lines
MaxLen == 4
\* latest record timestamp, in milliseconds
MaxTs == 2
\* longest session file of the ingestion specifications, in lines
MaxRecords == 3
MaxSessions == 3

\* ------------------------------------------------------------- constants
\* int(ts_dt.timestamp() * 1000): microseconds per millisecond
UsPerMs == 1000
\* info.get('model_context_window', 272000)
DefaultContextWindow == 272000
\* duration_seconds = (time_end - time_start) / 1000.0
MsPerSecond == 1000
\* format_duration: seconds per minute
SecondsPerMinute == 60
\* format_duration: minutes per hour
MinutesPerHour == 60

\* ------------------------------------------------------------ the inputs
\* last_token_usage.total_tokens / total_token_usage.total_tokens of a
\* token_count record (sample values)
Usages ==
    { [context_tokens |-> 500, cumulative_total |-> 500],
      [context_tokens |-> 700, cumulative_total |-> 1200] }

NoUsage == [context_tokens |-> 0, cumulative_total |-> 0]

\* one line of the session JSONL file
Line(kind, ts, usage) == [kind |-> kind, ts |-> ts, usage |-> usage]

TsStrings == { t * UsPerMs : t \in 0..MaxTs }

Lines ==
    { Line("token_count", ts, u) : ts \in TsStrings, u \in Usages }
    \cup { Line("user_message", ts, NoUsage) : ts \in TsStrings }
    \cup { Line("other", 0, NoUsage) }

\* instants are counted from the earliest timestamp of the session: a log
\* that carries timestamps carries the instant 0
FromSessionStart(lines) ==
    \/ \A i \in DOMAIN lines : lines[i].kind = "other"
    \/ \E i \in DOMAIN lines : lines[i].kind # "other" /\ lines[i].ts = 0

Logs ==
    { lines \in UNION { [1..n -> Lines] : n \in 0..MaxLen } :
        FromSessionStart(lines) }

\* lines on which the try block raises, so that 'except Exception: pass'
\* ends their handling:
\*   blank, invalid_json    json.loads(line) raises
\*   non_object             the record is no dict: record.get raises
\*   token_count_bad_info   info is no dict: info.get raises
\*   token_count_bad_ts     datetime.fromisoformat(ts) raises (or no timestamp)
\*   user_message_bad_ts    datetime.fromisoformat(ts) raises (or no timestamp)
FailingKinds ==
    { "blank", "invalid_json", "non_object", "token_count_bad_info",
      "token_count_bad_ts", "user_message_bad_ts" }

\* lines that parse and match neither known shape:
\*   other                  type is not 'event_msg', or another payload type
\*   bad_payload            the payload is no dict
\*   token_count_no_info    a token_count payload whose info is empty
IgnoredKinds == { "other", "bad_payload", "token_count_no_info" }

IngestLines ==
    { Line("token_count", ts, u) : ts \in TsStrings, u \in Usages }
    \cup { Line("user_message", ts, NoUsage) : ts \in TsStrings }
    \cup { Line(kind, 0, NoUsage) : kind \in FailingKinds \cup IgnoredKinds }

IngestLogs == UNION { [1..n -> IngestLines] : n \in 0..MaxRecords }

VARIABLES
    session_file,               \* the lines of the session JSONL file
    pc,                         \* position of main() in the per-session pipeline
    token_data,                 \* extract_session_data: token_count events
    user_messages,              \* extract_session_data: user_message events
    total_msg_count,            \* extract_session_data: number of lines
    user_messages_with_context, \* generate_html: enriched user messages
    index_to_ts,                \* generate_html: message index -> 'ts' string
    turn_bounds,                \* generate_html: context/time start/end per message
    session_files,              \* main: the sessions to analyse, in order
    session_index,              \* main: which of session_files the loop is at
    generated_charts,           \* main: the sessions a chart was written for
    total_token_events,         \* main: sum of len(token_data)
    total_user_messages,        \* main: sum of len(user_messages)
    stdout,                     \* main: the notices printed per session
    args,                       \* parse_args: the options of the command line
    launches,                   \* main: the viewer launches attempted, in order
    stat_cards,                 \* generate_html: the figures of the stats row
    MESSAGE_BASED_X,            \* page script: the current x-axis mode
    contextChart,               \* page script: contextChart.data.datasets
    cumulativeChart             \* page script: cumulativeChart.data.datasets

\* the state of the page's script
page_vars == << MESSAGE_BASED_X, contextChart, cumulativeChart >>

vars == << session_file, pc, token_data, user_messages, total_msg_count,
           user_messages_with_context, index_to_ts, turn_bounds,
           session_files, session_index, generated_charts,
           total_token_events, total_user_messages, stdout,
           args, launches, stat_cards, page_vars >>

\* ------------------------------------------------------- timestamp codec
\* int(datetime.fromisoformat(ts.rstrip('Z')).timestamp() * 1000)
ParseTsMs(ts) == ts \div UsPerMs

\* round(n / d) to the nearest integer, ties to even (d > 0)
RoundHalfEven(n, d) ==
    LET q == n \div d
        r == n % d
    IN  IF 2 * r < d THEN q
        ELSE IF 2 * r > d THEN q + 1
        ELSE IF q % 2 = 0 THEN q ELSE q + 1

\* datetime.fromtimestamp(ms / 1000.0).strftime('...%f')[:-3] + 'Z' for the
\* millisecond value n / d: rounded to a microsecond by fromtimestamp, then
\* cut to milliseconds by [:-3]
FormatTsMs(n, d) ==
    (RoundHalfEven(UsPerMs * n, d) \div UsPerMs) * UsPerMs

\* ------------------------------------------------- extract_session_data
\* info.get('model_context_window', 272000)
window_of(line) ==
    IF "model_context_window" \in DOMAIN line.usage
    THEN line.usage.model_context_window
    ELSE DefaultContextWindow

\* extract_loop without the per-line try/except: the scan ends at the
\* first line that raises
RECURSIVE extract_loop_abort(_, _, _, _, _)
extract_loop_abort(lines, message_index, tokens, messages, user_message_index) ==
    IF message_index > Len(lines) THEN << tokens, messages >>
    ELSE
      LET line == lines[message_index] IN
      IF line.kind = "token_count" THEN
        extract_loop_abort(lines, message_index + 1,
          Append(tokens,
            [ ts |-> line.ts,
              ts_ms |-> ParseTsMs(line.ts),
              cumulative_total |-> line.usage.cumulative_total,
              context_tokens |-> line.usage.context_tokens,
              model_context_window |-> window_of(line),
              message_index |-> message_index ]),
          messages, user_message_index)
      ELSE IF line.kind = "user_message" THEN
        extract_loop_abort(lines, message_index + 1, tokens,
          Append(messages,
            [ ts |-> line.ts,
              ts_ms |-> ParseTsMs(line.ts),
              message |-> "text",
              user_msg_index |-> user_message_index + 1,
              total_msg_index |-> message_index ]),
          user_message_index + 1)
      ELSE IF line.kind \in FailingKinds THEN << tokens, messages >>
      ELSE
        extract_loop_abort(lines, message_index + 1, tokens, messages,
                           user_message_index)

RECURSIVE extract_loop(_, _, _, _, _)
extract_loop(lines, message_index, tokens, messages, user_message_index) ==
    IF message_index > Len(lines) THEN << tokens, messages >>
    ELSE
      LET line == lines[message_index] IN
      IF line.kind = "token_count" THEN
        extract_loop(lines, message_index + 1,
          Append(tokens,
            [ ts |-> line.ts,
              ts_ms |-> ParseTsMs(line.ts),
              cumulative_total |-> line.usage.cumulative_total,
              context_tokens |-> line.usage.context_tokens,
              model_context_window |-> window_of(line),
              message_index |-> message_index ]),
          messages, user_message_index)
      ELSE IF line.kind = "user_message" THEN
        extract_loop(lines, message_index + 1, tokens,
          Append(messages,
            [ ts |-> line.ts,
              ts_ms |-> ParseTsMs(line.ts),
              message |-> "text",
              user_msg_index |-> user_message_index + 1,
              total_msg_index |-> message_index ]),
          user_message_index + 1)
      ELSE IF line.kind = "user_message_bad_ts" THEN
        \* user_message_index += 1 precedes the failing fromisoformat
        extract_loop(lines, message_index + 1, tokens, messages,
                     user_message_index + 1)
      ELSE
        extract_loop(lines, message_index + 1, tokens, messages,
                     user_message_index)

\* count_lines that passes over blank lines
RECURSIVE count_lines_nonblank(_)
count_lines_nonblank(lines) ==
    IF lines = << >> THEN 0
    ELSE (IF Head(lines).kind = "blank" THEN 0 ELSE 1)
           + count_lines_nonblank(Tail(lines))

\* total_message_count = sum(1 for _ in f)
RECURSIVE count_lines(_)
count_lines(lines) ==
    IF lines = << >> THEN 0 ELSE 1 + count_lines(Tail(lines))

\* extract_session_data that raises each cumulative_total to the largest
\* value seen so far
extract_session_data_running_max(lines) ==
    LET r == extract_loop(lines, 1, << >>, << >>, 0)
        seen(k) == { r[1][j].cumulative_total : j \in 1..k }
        largest(k) == CHOOSE v \in seen(k) : \A w \in seen(k) : w <= v
    IN  << [ k \in DOMAIN r[1] |->
               [ r[1][k] EXCEPT !.cumulative_total = largest(k) ] ],
           r[2], count_lines(lines) >>

\* extract_session_data that returns the token_count events ordered by
\* timestamp (events of one timestamp keep their log order)
extract_session_data_sorted(lines) ==
    LET r == extract_loop(lines, 1, << >>, << >>, 0)
        n == Len(r[1])
        order == CHOOSE f \in [1..n -> 1..n] :
                   \A i, j \in 1..n :
                     i < j =>
                       \/ r[1][f[i]].ts_ms < r[1][f[j]].ts_ms
                       \/ /\ r[1][f[i]].ts_ms = r[1][f[j]].ts_ms
                          /\ f[i] < f[j]
    IN  << [ k \in 1..n |-> r[1][order[k]] ], r[2], count_lines(lines) >>

extract_session_data(lines) ==
    LET r == extract_loop(lines, 1, << >>, << >>, 0)
    IN  << r[1], r[2], count_lines(lines) >>

\* ---------------------------------------------------------- format_duration
\* int(x) of the quotient a / b: truncation toward zero (b > 0)
TruncDiv(a, b) == IF a >= 0 THEN a \div b ELSE 0 - ((0 - a) \div b)

\* format_duration(duration_ms / 1000.0): "(Xs)", "(Xm Ys)" or "(Xh Ym)"
format_duration(duration_ms) ==
    LET seconds == TruncDiv(duration_ms, MsPerSecond)
        minutes == seconds \div SecondsPerMinute
        secs    == seconds % SecondsPerMinute
        hours   == minutes \div MinutesPerHour
        mins    == minutes % MinutesPerHour
    IN  IF seconds < SecondsPerMinute
          THEN [unit |-> "s", major |-> seconds, minor |-> 0]
        ELSE IF minutes < MinutesPerHour
          THEN [unit |-> "m", major |-> minutes, minor |-> secs]
        ELSE [unit |-> "h", major |-> hours, minor |-> mins]

\* ------------------------------------- generate_html: matching (361-428)
\* closest_token with the comparison made strict (> for >=)
RECURSIVE closest_token_strict(_, _, _)
closest_token_strict(tokens, msg_ts_ms, k) ==
    IF k > Len(tokens) THEN 0
    ELSE IF tokens[k].ts_ms > msg_ts_ms THEN k
    ELSE closest_token_strict(tokens, msg_ts_ms, k + 1)

\* closest_token as the token_count event nearest in time to the message,
\* before or after it (the earlier one of two equally near)
closest_token_nearest(tokens, msg_ts_ms, k) ==
    IF tokens = << >> THEN 0
    ELSE
      LET dist(j) == IF tokens[j].ts_ms >= msg_ts_ms
                     THEN tokens[j].ts_ms - msg_ts_ms
                     ELSE msg_ts_ms - tokens[j].ts_ms
      IN  CHOOSE j \in DOMAIN tokens :
            \A m \in DOMAIN tokens :
              dist(j) < dist(m) \/ (dist(j) = dist(m) /\ j <= m)

\* for tok in token_data: if tok['ts_ms'] >= msg['ts_ms']: break
\* the index of closest_token, 0 for None
RECURSIVE closest_token(_, _, _)
closest_token(tokens, msg_ts_ms, k) ==
    IF k > Len(tokens) THEN 0
    ELSE IF tokens[k].ts_ms >= msg_ts_ms THEN k
    ELSE closest_token(tokens, msg_ts_ms, k + 1)

\* the index of the token_count event a user message is matched to:
\* closest_token, else token_data[-1], else 0 (message dropped)
matched_token(tokens, msg) ==
    LET k == closest_token(tokens, msg.ts_ms, 1)
    IN  IF k # 0 THEN k ELSE Len(tokens)

with_context(msg, tok) ==
    [ ts |-> msg.ts,
      ts_ms |-> msg.ts_ms,
      message |-> msg.message,
      context_tokens |-> tok.context_tokens,
      cumulative_total |-> tok.cumulative_total,
      user_msg_index |-> msg.user_msg_index,
      total_msg_index |-> msg.total_msg_index ]

\* match_loop without the fallback to token_data[-1]: a user message
\* with no token count at or after it is dropped
RECURSIVE match_loop_no_fallback(_, _, _, _)
match_loop_no_fallback(tokens, messages, i, out) ==
    IF i > Len(messages) THEN out
    ELSE
      LET k == closest_token(tokens, messages[i].ts_ms, 1)
      IN  match_loop_no_fallback(tokens, messages, i + 1,
            IF k # 0 THEN Append(out, with_context(messages[i], tokens[k]))
            ELSE out)

RECURSIVE match_loop(_, _, _, _)
match_loop(tokens, messages, i, out) ==
    IF i > Len(messages) THEN out
    ELSE
      LET k == matched_token(tokens, messages[i])
      IN  match_loop(tokens, messages, i + 1,
            IF k # 0 THEN Append(out, with_context(messages[i], tokens[k]))
            ELSE out)

\* ------------------------------- generate_html: index_to_ts (439-458)
\* for pt in token_data: index_to_ts[pt['message_index']] = pt['ts']
RECURSIVE exact_pairs(_, _, _)
exact_pairs(tokens, k, map) ==
    IF k > Len(tokens) THEN map
    ELSE exact_pairs(tokens, k + 1,
           (tokens[k].message_index :> tokens[k].ts) @@ map)

SetMin(S) == CHOOSE x \in S : \A y \in S : x <= y
SetMax(S) == CHOOSE x \in S : \A y \in S : x >= y

\* interpolation_ends with first_ts and last_ts read from the events at
\* first_idx and last_idx
interpolation_ends_by_position(tokens) ==
    LET first_idx == SetMin({ tokens[k].message_index : k \in 1..Len(tokens) })
        last_idx  == SetMax({ tokens[k].message_index : k \in 1..Len(tokens) })
    IN  [ first_idx |-> first_idx,
          last_idx  |-> last_idx,
          first_ts  |-> tokens[CHOOSE k \in 1..Len(tokens) :
                                 tokens[k].message_index = first_idx].ts_ms,
          last_ts   |-> tokens[CHOOSE k \in 1..Len(tokens) :
                                 tokens[k].message_index = last_idx].ts_ms ]

\* first_idx, last_idx, first_ts, last_ts: the smallest and largest
\* message_index and the smallest and largest ts_ms of token_data
interpolation_ends(tokens) ==
    [ first_idx |-> SetMin({ tokens[k].message_index : k \in 1..Len(tokens) }),
      last_idx  |-> SetMax({ tokens[k].message_index : k \in 1..Len(tokens) }),
      first_ts  |-> SetMin({ tokens[k].ts_ms : k \in 1..Len(tokens) }),
      last_ts   |-> SetMax({ tokens[k].ts_ms : k \in 1..Len(tokens) }) ]

\* interpolated_ts with the ratio applied to last_ts instead of
\* last_ts - first_ts
interpolated_ts_unscaled(ends, idx) ==
    FormatTsMs(ends.first_ts * (ends.last_idx - ends.first_idx)
                 + (idx - ends.first_idx) * ends.last_ts,
               ends.last_idx - ends.first_idx)

\* the value written for an index that has no token_count event:
\* first_ts + (idx - first_idx) / (last_idx - first_idx) * (last_ts - first_ts)
interpolated_ts(ends, idx) ==
    FormatTsMs(ends.first_ts * (ends.last_idx - ends.first_idx)
                 + (idx - ends.first_idx) * (ends.last_ts - ends.first_ts),
               ends.last_idx - ends.first_idx)

\* interpolated_indices restricted to first_idx..last_idx
interpolated_indices_in_range(ends, total, exact) ==
    { idx \in 1..total : /\ idx \notin DOMAIN exact
                         /\ ends.last_idx > ends.first_idx
                         /\ ends.first_idx <= idx
                         /\ idx <= ends.last_idx }

\* which indices of range(1, total_msg_count + 1) the loop fills
interpolated_indices(ends, total, exact) ==
    { idx \in 1..total :
        idx \notin DOMAIN exact /\ ends.last_idx > ends.first_idx }

\* build_index_to_ts without the test 'idx not in index_to_ts'
build_index_to_ts_overwrite(tokens, total) ==
    IF tokens = << >> THEN << >>
    ELSE
      LET exact  == exact_pairs(tokens, 1, << >>)
          ends   == interpolation_ends(tokens)
          filled == { idx \in 1..total : ends.last_idx > ends.first_idx }
      IN  [ idx \in DOMAIN exact \cup filled |->
              IF idx \in filled THEN interpolated_ts(ends, idx)
              ELSE exact[idx] ]

\* build_index_to_ts without the test 'last_idx > first_idx': with one
\* snapshot position every other index gets first_ts
build_index_to_ts_fill_degenerate(tokens, total) ==
    IF tokens = << >> THEN << >>
    ELSE
      LET exact  == exact_pairs(tokens, 1, << >>)
          ends   == interpolation_ends(tokens)
          filled == { idx \in 1..total : idx \notin DOMAIN exact }
      IN  [ idx \in DOMAIN exact \cup filled |->
              IF idx \in DOMAIN exact THEN exact[idx]
              ELSE IF ends.last_idx > ends.first_idx
                   THEN interpolated_ts(ends, idx)
                   ELSE FormatTsMs(ends.first_ts, 1) ]

build_index_to_ts(tokens, total) ==
    IF tokens = << >> THEN << >>
    ELSE
      LET exact  == exact_pairs(tokens, 1, << >>)
          ends   == interpolation_ends(tokens)
          filled == interpolated_indices(ends, total, exact)
      IN  [ idx \in DOMAIN exact \cup filled |->
              IF idx \in DOMAIN exact THEN exact[idx]
              ELSE interpolated_ts(ends, idx) ]

\* ------------------------- generate_html: cost and duration (479-516)
\* latest_before with the comparison made inclusive (<= for <)
RECURSIVE latest_before_inclusive(_, _, _)
latest_before_inclusive(tokens, next_msg_ts, k) ==
    IF k < 1 THEN 0
    ELSE IF tokens[k].ts_ms <= next_msg_ts THEN k
    ELSE latest_before_inclusive(tokens, next_msg_ts, k - 1)

\* for tok in reversed(token_data): if tok['ts_ms'] < next_msg_ts: break
\* the index of the token found, 0 when the loop ends without a break
RECURSIVE latest_before(_, _, _)
latest_before(tokens, next_msg_ts, k) ==
    IF k < 1 THEN 0
    ELSE IF tokens[k].ts_ms < next_msg_ts THEN k
    ELSE latest_before(tokens, next_msg_ts, k - 1)

\* bounds_of with the last message bounded like the others, the boundary
\* being the timestamp of the last token_count event
bounds_of_scan_last(tokens, enriched, i) ==
    LET context_start == enriched[i].context_tokens
        time_start    == enriched[i].ts_ms
        k == IF i < Len(enriched)
               THEN latest_before(tokens, enriched[i + 1].ts_ms, Len(tokens))
               ELSE latest_before(tokens, tokens[Len(tokens)].ts_ms, Len(tokens))
    IN  [ context_start |-> context_start,
          time_start    |-> time_start,
          context_end   |-> IF k # 0 THEN tokens[k].context_tokens
                            ELSE context_start,
          time_end      |-> IF k # 0 THEN tokens[k].ts_ms ELSE time_start ]

\* bounds_of with time_start read from the matched token_count event
bounds_of_snapshot_start(tokens, enriched, i) ==
    LET context_start == enriched[i].context_tokens
        time_start    == tokens[matched_token(tokens, enriched[i])].ts_ms
        k == IF i < Len(enriched)
               THEN latest_before(tokens, enriched[i + 1].ts_ms, Len(tokens))
               ELSE Len(tokens)
    IN  [ context_start |-> context_start,
          time_start    |-> time_start,
          context_end   |-> IF k # 0 THEN tokens[k].context_tokens
                            ELSE context_start,
          time_end      |-> IF k # 0 THEN tokens[k].ts_ms ELSE time_start ]

\* context_start, time_start, context_end, time_end of message i
bounds_of(tokens, enriched, i) ==
    LET context_start == enriched[i].context_tokens
        time_start    == enriched[i].ts_ms
        k == IF i < Len(enriched)
               THEN latest_before(tokens, enriched[i + 1].ts_ms, Len(tokens))
               ELSE Len(tokens)
    IN  [ context_start |-> context_start,
          time_start    |-> time_start,
          context_end   |-> IF k # 0 THEN tokens[k].context_tokens
                            ELSE context_start,
          time_end      |-> IF k # 0 THEN tokens[k].ts_ms ELSE time_start ]

Max(a, b) == IF a >= b THEN a ELSE b

\* cost_of without the clamp max(0, ...)
cost_of_unclamped(b) == b.context_end - b.context_start

cost_of(b) == Max(0, b.context_end - b.context_start)

duration_ms_of(b) == b.time_end - b.time_start

with_cost(msg, b) ==
    [ ts |-> msg.ts,
      ts_ms |-> msg.ts_ms,
      message |-> msg.message,
      context_tokens |-> msg.context_tokens,
      cumulative_total |-> msg.cumulative_total,
      user_msg_index |-> msg.user_msg_index,
      total_msg_index |-> msg.total_msg_index,
      cost |-> cost_of(b),
      duration |-> format_duration(duration_ms_of(b)) ]

\* ------------------------------------------- the session summary figures
\* f"{x:.1f}" of x = context_tokens / window * 100, in tenths of a
\* percent (window > 0)
usage_tenths(context_tokens, window) ==
    RoundHalfEven(context_tokens * 1000, window)

\* chart_window that is the default window whatever the records carry
chart_window_default(tokens) == DefaultContextWindow

\* generate_html: model_context_window = token_data[0]['model_context_window']
chart_window(tokens) == tokens[1].model_context_window

\* the window main's stats divide by: token_data[0]['model_context_window']
console_window(tokens) == tokens[1].model_context_window

\* generate_html: the stat cards 'Final Context', 'Total', 'Model CW' and
\* 'Context Usage'
stats_of(tokens, window) ==
    [ final_context |-> tokens[Len(tokens)].context_tokens,
      total         |-> tokens[Len(tokens)].cumulative_total,
      model_cw      |-> window,
      usage         |-> usage_tenths(tokens[Len(tokens)].context_tokens, window) ]

\* main: the lines 'Final context', 'Cumulative total' and 'Context usage'
\* of the session's stats
console_stats(tokens) ==
    << << "Final context", tokens[Len(tokens)].context_tokens >>,
       << "Cumulative total", tokens[Len(tokens)].cumulative_total >>,
       << "Context usage",
          usage_tenths(tokens[Len(tokens)].context_tokens,
                       console_window(tokens)) >> >>

\* ------------------------------------------------------------ the pipeline
\* one entry of session_files: a path whose file can be opened or not,
\* and the lines of that file
Session(stem, readable, lines) ==
    [stem |-> stem, readable |-> readable, lines |-> lines]

\* main: output_dir / f"context_window_chart_{session_file.stem}.html"
output_path(session) == "context_window_chart_" \o session.stem \o ".html"

\* the command line as parse_args sees it: the positional session_file
\* (absent, the empty string, or a path or UUID), --latest and --hours
\* (absent, a value <= 0, a value > 0), --day and --since (absent or
\* given), and --time-based-x
CommandLines ==
    [ session_file : {"absent", "empty", "given"},
      latest       : {"absent", "nonpositive", "positive"},
      hours        : {"absent", "nonpositive", "positive"},
      day          : {"absent", "given"},
      since        : {"absent", "given"},
      time_based_x : BOOLEAN ]

NoOptions ==
    [ session_file |-> "absent", latest |-> "absent", hours |-> "absent",
      day |-> "absent", since |-> "absent", time_based_x |-> FALSE ]

\* python context_window_chart_v5.py <path>
PathCommand == [ NoOptions EXCEPT !.session_file = "given" ]

\* python context_window_chart_v5.py --latest N
LatestCommand == [ NoOptions EXCEPT !.latest = "positive" ]

\* what is not there before the analysis of a session has run
NothingYet(command) ==
    /\ args = command
    /\ token_data = << >>
    /\ user_messages = << >>
    /\ total_msg_count = 0
    /\ user_messages_with_context = << >>
    /\ index_to_ts = << >>
    /\ turn_bounds = << >>
    /\ generated_charts = << >>
    /\ total_token_events = 0
    /\ total_user_messages = 0
    /\ stdout = << >>
    /\ launches = << >>
    /\ stat_cards = << >>
    /\ MESSAGE_BASED_X = ~command.time_based_x
    /\ contextChart = << >>
    /\ cumulativeChart = << >>

\* main called with one session, whose log is lines
SingleSession(lines) ==
    /\ session_file = lines
    /\ session_files = << Session("a", TRUE, lines) >>
    /\ session_index = 1
    /\ pc = "start"
    /\ NothingYet(PathCommand)

Init == \E lines \in Logs : SingleSession(lines)

\* main: print("Analyzing session"); token_data, user_messages,
\* total_msg_count = extract_session_data(session_file); the totals.
\* open() raising for a file that cannot be read is caught nowhere.
ExtractSessionData ==
    /\ pc = "start"
    /\ stdout' = Append(stdout, << "Analyzing session", session_index >>)
    /\ IF ~session_files[session_index].readable
       THEN /\ pc' = "crashed"
            /\ UNCHANGED << token_data, user_messages, total_msg_count,
                            total_token_events, total_user_messages >>
       ELSE LET r == extract_session_data(session_file)
            IN  /\ token_data' = r[1]
                /\ user_messages' = r[2]
                /\ total_msg_count' = r[3]
                /\ total_token_events' = total_token_events + Len(r[1])
                /\ total_user_messages' = total_user_messages + Len(r[2])
                /\ pc' = "extracted"
    /\ UNCHANGED << session_file, user_messages_with_context, index_to_ts,
                    turn_bounds, session_files, session_index,
                    generated_charts >>
    /\ UNCHANGED << args, launches, stat_cards, page_vars >>

\* SkipSession as a break: the skip leaves the loop
SkipSessionBreak ==
    /\ pc = "extracted"
    /\ token_data = << >>
    /\ pc' = "summary"
    /\ stdout' = Append(stdout, << "Skipping (no token data)", session_index >>)
    /\ UNCHANGED << session_file, token_data, user_messages, total_msg_count,
                    user_messages_with_context, index_to_ts, turn_bounds,
                    session_files, session_index, generated_charts,
                    total_token_events, total_user_messages >>
    /\ UNCHANGED << args, launches, stat_cards, page_vars >>

\* main: if not token_data: print("Skipping (no token data)"); continue
SkipSession ==
    /\ pc = "extracted"
    /\ token_data = << >>
    /\ pc' = "skipped"
    /\ stdout' = Append(stdout, << "Skipping (no token data)", session_index >>)
    /\ UNCHANGED << session_file, token_data, user_messages, total_msg_count,
                    user_messages_with_context, index_to_ts, turn_bounds,
                    session_files, session_index, generated_charts,
                    total_token_events, total_user_messages >>
    /\ UNCHANGED << args, launches, stat_cards, page_vars >>

\* main: generate_html(token_data, user_messages, ..., total_msg_count, ...):
\* match the user messages to token counts, build the index-to-timestamp
\* map with interpolation, then calculate cost and execution time for
\* each user message; the page's 'Context Usage' divides by
\* token_data[0]['model_context_window'], and a ZeroDivisionError raised
\* there is caught nowhere. Then print("Chart generated"),
\* generated_charts.append(output_path) and the session's stats.
\* GenerateHtml writing the derived fields into the records it was given
GenerateHtmlInPlace ==
    /\ pc = "extracted"
    /\ token_data # << >>
    /\ IF token_data[1].model_context_window = 0
       THEN /\ pc' = "crashed"
            /\ UNCHANGED << turn_bounds, user_messages_with_context,
                            index_to_ts, generated_charts, stdout,
                            stat_cards, user_messages >>
       ELSE /\ LET enriched == match_loop(token_data, user_messages, 1, << >>)
                   bounds   == [ i \in 1..Len(enriched) |->
                                   bounds_of(token_data, enriched, i) ]
               IN  /\ turn_bounds' = bounds
                   /\ user_messages_with_context' =
                        [ i \in 1..Len(enriched) |->
                            with_cost(enriched[i], bounds[i]) ]
                   /\ user_messages' =
                        [ i \in 1..Len(enriched) |->
                            with_cost(enriched[i], bounds[i]) ]
            /\ index_to_ts' = build_index_to_ts(token_data, total_msg_count)
            /\ stat_cards' = stats_of(token_data, chart_window(token_data))
            /\ generated_charts' = Append(generated_charts, session_index)
            /\ stdout' = stdout \o << << "Chart generated", session_index >> >>
                            \o console_stats(token_data)
            /\ pc' = "done"
    /\ UNCHANGED << session_file, token_data, total_msg_count,
                    session_files, session_index, total_token_events,
                    total_user_messages >>
    /\ UNCHANGED << args, launches, page_vars >>

GenerateHtml ==
    /\ pc = "extracted"
    /\ token_data # << >>
    /\ IF token_data[1].model_context_window = 0
       THEN /\ pc' = "crashed"
            /\ UNCHANGED << turn_bounds, user_messages_with_context,
                            index_to_ts, generated_charts, stdout,
                            stat_cards >>
       ELSE /\ LET enriched == match_loop(token_data, user_messages, 1, << >>)
                   bounds   == [ i \in 1..Len(enriched) |->
                                   bounds_of(token_data, enriched, i) ]
               IN  /\ turn_bounds' = bounds
                   /\ user_messages_with_context' =
                        [ i \in 1..Len(enriched) |->
                            with_cost(enriched[i], bounds[i]) ]
            /\ index_to_ts' = build_index_to_ts(token_data, total_msg_count)
            /\ stat_cards' = stats_of(token_data, chart_window(token_data))
            /\ generated_charts' = Append(generated_charts, session_index)
            /\ stdout' = stdout \o << << "Chart generated", session_index >> >>
                            \o console_stats(token_data)
            /\ pc' = "done"
    /\ UNCHANGED << session_file, token_data, user_messages, total_msg_count,
                    session_files, session_index, total_token_events,
                    total_user_messages >>
    /\ UNCHANGED << args, launches, page_vars >>

Next ==
    \/ ExtractSessionData
    \/ SkipSession
    \/ GenerateHtml

Spec == Init /\ [][Next]_vars

\* the same pipeline over session files that hold failing and ignored lines
InitIngest == \E lines \in IngestLogs : SingleSession(lines)

SpecIngest == InitIngest /\ [][Next]_vars

\* ------------------------------- a session file that grows while it is read
FirstUsage == [context_tokens |-> 500, cumulative_total |-> 500]

\* the lines of a live log: snapshots at every instant, a user message,
\* a record of another shape
LiveLines ==
    { Line("token_count", ts, FirstUsage) : ts \in TsStrings }
    \cup { Line("user_message", 0, NoUsage), Line("other", 0, NoUsage) }

LiveLogs == UNION { [1..n -> LiveLines] : n \in 0..MaxRecords }

InitLive == \E lines \in LiveLogs : SingleSession(lines)

\* extract_session_data, first pass: with open(session_file) as f:
\* total_message_count = sum(1 for _ in f)
CountLines ==
    /\ pc = "start"
    /\ total_msg_count' = count_lines(session_file)
    /\ stdout' = Append(stdout, << "Analyzing session", session_index >>)
    /\ pc' = "counted"
    /\ UNCHANGED << session_file, token_data, user_messages,
                    user_messages_with_context, index_to_ts, turn_bounds,
                    session_files, session_index, generated_charts,
                    total_token_events, total_user_messages >>
    /\ UNCHANGED << args, launches, stat_cards, page_vars >>

\* the writer of the session appends one record to the file; it does so
\* at any moment, and only an append before the end of the second pass
\* is seen by the analysis
AppendRecord ==
    /\ pc \in {"start", "counted"}
    /\ Len(session_file) <= MaxRecords
    /\ \E line \in LiveLines :
         /\ session_file' = Append(session_file, line)
         /\ session_files' =
              [ session_files EXCEPT ![session_index].lines = Append(@, line) ]
    /\ UNCHANGED << pc, token_data, user_messages, total_msg_count,
                    user_messages_with_context, index_to_ts, turn_bounds,
                    session_index, generated_charts,
                    total_token_events, total_user_messages, stdout >>
    /\ UNCHANGED << args, launches, stat_cards, page_vars >>

\* extract_session_data, second pass: the file is opened again and
\* every line it holds now is classified; then main's totals
ClassifyLines ==
    /\ pc = "counted"
    /\ LET r == extract_loop(session_file, 1, << >>, << >>, 0)
       IN  /\ token_data' = r[1]
           /\ user_messages' = r[2]
           /\ total_token_events' = total_token_events + Len(r[1])
           /\ total_user_messages' = total_user_messages + Len(r[2])
    /\ pc' = "extracted"
    /\ UNCHANGED << session_file, total_msg_count,
                    user_messages_with_context, index_to_ts, turn_bounds,
                    session_files, session_index, generated_charts, stdout >>
    /\ UNCHANGED << args, launches, stat_cards, page_vars >>

NextLive ==
    \/ CountLines
    \/ AppendRecord
    \/ ClassifyLines
    \/ SkipSession
    \/ GenerateHtml

SpecLive == InitLive /\ [][NextLive]_vars

\* ------------------------------------------------- main over several sessions
\* a token_count record whose info carries model_context_window = 0
ZeroWindowUsage ==
    [context_tokens |-> 500, cumulative_total |-> 500, model_context_window |-> 0]

\* a token_count record whose info carries a window other than the default
SmallWindowUsage ==
    [context_tokens |-> 700, cumulative_total |-> 1200, model_context_window |-> 1000]

\* the logs of a batch: empty, a user message only, a snapshot and a user
\* message, a snapshot of window 0, a snapshot of window 0 after one of
\* the default window, and a snapshot of window 1000 before one of the
\* default window
BatchLogs ==
    { << >>,
      << Line("user_message", 0, NoUsage) >>,
      << Line("token_count", 0, FirstUsage), Line("user_message", 0, NoUsage) >>,
      << Line("token_count", 0, ZeroWindowUsage) >>,
      << Line("token_count", 0, FirstUsage), Line("token_count", 0, ZeroWindowUsage) >>,
      << Line("token_count", 0, SmallWindowUsage), Line("token_count", 0, FirstUsage) >> }

\* the file names, without the directory and the suffix, of the session
\* files: files of different directories may share one
Stems == { "a", "b" }

BatchSessions ==
    { Session("a", FALSE, << >>) }
    \cup { Session(stem, TRUE, l) : stem \in Stems, l \in BatchLogs }

Batches == UNION { [1..n -> BatchSessions] : n \in 1..MaxSessions }

InitBatch ==
    /\ session_files \in Batches
    /\ session_index = 1
    /\ session_file = session_files[1].lines
    /\ pc = "start"
    /\ NothingYet(LatestCommand)

\* main: for session_file in session_files: the next iteration, after a
\* 'continue' or after the end of the loop body
NextSession ==
    /\ pc \in {"skipped", "done"}
    /\ session_index < Len(session_files)
    /\ session_index' = session_index + 1
    /\ session_file' = session_files[session_index + 1].lines
    /\ pc' = "start"
    /\ UNCHANGED << token_data, user_messages, total_msg_count,
                    user_messages_with_context, index_to_ts, turn_bounds,
                    session_files, generated_charts, total_token_events,
                    total_user_messages, stdout >>
    /\ UNCHANGED << args, launches, stat_cards, page_vars >>

\* main: the summary printed after the loop
PrintSummary ==
    /\ pc \in {"skipped", "done"}
    /\ session_index = Len(session_files)
    /\ pc' = "summary"
    /\ stdout' = stdout \o
         << << "Total sessions analyzed", Len(session_files) >>,
            << "Total token events", total_token_events >>,
            << "Total user messages", total_user_messages >> >>
    /\ UNCHANGED << session_file, token_data, user_messages, total_msg_count,
                    user_messages_with_context, index_to_ts, turn_bounds,
                    session_files, session_index, generated_charts,
                    total_token_events, total_user_messages >>
    /\ UNCHANGED << args, launches, stat_cards, page_vars >>

NextBatch ==
    \/ ExtractSessionData
    \/ SkipSession
    \/ GenerateHtml
    \/ NextSession
    \/ PrintSummary

SpecBatch == InitBatch /\ [][NextBatch]_vars

\* ------------------------------------------------ parse_args and main
\* len(sys.argv) == 1: the command without any argument (--output-dir,
\* which the model leaves out, counts like --time-based-x)
bare_command(command) == command = NoOptions

\* parse_args: active_options = [name for name, is_set in
\* selection_flags.items() if is_set], where the positional counts by
\* bool(args.session_file) and the options by 'is not None'
active_options(command) ==
    { name \in {"session_file", "latest", "hours", "day", "since"} :
        IF name = "session_file" THEN command.session_file = "given"
        ELSE command[name] # "absent" }

\* parse_args: how the call ends: the help and sys.exit(0), parser.error
\* (exit status 2), or the args returned
parse_args(command) ==
    IF bare_command(command) THEN "exit_0_help"
    ELSE IF active_options(command) = {} THEN "exit_2_error"
    ELSE IF Cardinality(active_options(command)) > 1 THEN "exit_2_error"
    ELSE IF command.latest = "nonpositive" THEN "exit_2_error"
    ELSE IF command.hours = "nonpositive" THEN "exit_2_error"
    ELSE "parsed"

\* the command is started: nothing is located yet
InitCli ==
    /\ \E command \in CommandLines : NothingYet(command)
    /\ pc = "invoked"
    /\ session_files = << >>
    /\ session_index = 0
    /\ session_file = << >>

\* what the steps before the loop over the sessions leave alone
cli_frame ==
    << token_data, user_messages, total_msg_count,
       user_messages_with_context, index_to_ts, turn_bounds,
       generated_charts, total_token_events, total_user_messages,
       args, launches, stat_cards, page_vars >>

\* main: args = parse_args()
ParseArgs ==
    /\ pc = "invoked"
    /\ pc' = parse_args(args)
    /\ UNCHANGED << session_file, session_files, session_index, stdout >>
    /\ UNCHANGED cli_frame

\* main: if args.hours is not None: list_sessions_in_last_hours(..); return
ListSessions ==
    /\ pc = "parsed"
    /\ args.hours # "absent"
    /\ pc' = "listed"
    /\ stdout' = Append(stdout, << "Active sessions within the last hours", 0 >>)
    /\ UNCHANGED << session_file, session_files, session_index >>
    /\ UNCHANGED cli_frame

\* the session lists the finders return here: one session
FoundBatches == { << s >> : s \in BatchSessions }

\* main: 'Determine which sessions to analyze': find_sessions_since,
\* find_sessions_for_day, find_latest_sessions, find_sessions_by_uuid or
\* the path itself; a finder that finds nothing ends with sys.exit(1)
LocateSessions ==
    /\ pc = "parsed"
    /\ args.hours = "absent"
    /\ \/ /\ pc' = "exit_1_not_found"
          /\ UNCHANGED << session_file, session_files, session_index >>
       \/ \E found \in FoundBatches :
            /\ session_files' = found
            /\ session_index' = 1
            /\ session_file' = found[1].lines
            /\ pc' = "start"
    /\ UNCHANGED stdout
    /\ UNCHANGED cli_frame

NextCli ==
    \/ ParseArgs
    \/ ListSessions
    \/ LocateSessions
    \/ ExtractSessionData
    \/ SkipSession
    \/ GenerateHtml
    \/ PrintSummary

SpecCli == InitCli /\ [][NextCli]_vars

\* ------------------------------------------------------ main: the viewer
\* how subprocess.run(['open', path], check=False) ends: the viewer
\* opens, 'open' exits with a status other than 0 (check=False returns
\* it without raising), or the call raises (no 'open' executable)
LaunchOutcomes == { "opened", "exit_nonzero", "raised" }

\* main: for chart_path in generated_charts: try: subprocess.run(...)
\* except Exception as e: print("Warning: Could not auto-open ...",
\* file=sys.stderr); one iteration of the loop
OpenChart ==
    /\ pc = "summary"
    /\ Len(launches) < Len(generated_charts)
    /\ \E outcome \in LaunchOutcomes :
         LET chart == generated_charts[Len(launches) + 1] IN
         /\ launches' = Append(launches, [chart |-> chart, outcome |-> outcome])
         /\ stdout' = IF outcome = "raised"
                      THEN Append(stdout, << "Warning: Could not auto-open", chart >>)
                      ELSE stdout
    /\ UNCHANGED << session_file, pc, token_data, user_messages, total_msg_count,
                    user_messages_with_context, index_to_ts, turn_bounds,
                    session_files, session_index, generated_charts,
                    total_token_events, total_user_messages,
                    args, stat_cards, page_vars >>

NextViewer ==
    \/ ExtractSessionData
    \/ SkipSession
    \/ GenerateHtml
    \/ NextSession
    \/ PrintSummary
    \/ OpenChart

SpecViewer == InitBatch /\ [][NextViewer]_vars

\* ====================================================================
\* The script of the generated page: the selected-message marker
\* ====================================================================
\* a dataset of a chart that plots the session: label and the x-axis
\* mode its data is taken for
BaseDataset(label, message_based) ==
    [ label |-> label, message_based |-> message_based ]

\* new Chart(ctxContext, ...).data.datasets
context_datasets(message_based) ==
    << BaseDataset("Context Window Tokens", message_based),
       BaseDataset("User Messages", message_based),
       BaseDataset("Model Context Window Limit", message_based) >>

\* new Chart(ctxCumulative, ...).data.datasets
cumulative_datasets(message_based) ==
    << BaseDataset("Cumulative Total Tokens", message_based),
       BaseDataset("User Messages", message_based) >>

\* the message cards of the page: data-ts-ms, data-msg-index, data-index
Cards ==
    { [ tsMs     |-> user_messages_with_context[i].ts_ms,
        msgIndex |-> user_messages_with_context[i].total_msg_index,
        index    |-> user_messages_with_context[i].user_msg_index ] :
        i \in DOMAIN user_messages_with_context }

\* Math.max(...CONTEXT_MSG_DATA.map(d => d.y), ..., MODEL_CONTEXT_WINDOW)
contextYMax ==
    SetMax({ token_data[k].context_tokens : k \in DOMAIN token_data }
             \cup { token_data[1].model_context_window })

\* Math.max(...CUMULATIVE_MSG_DATA.map(d => d.y), ...)
cumulativeYMax ==
    SetMax({ token_data[k].cumulative_total : k \in DOMAIN token_data })

\* the vertical line of the selected message
SelectedMessage(xPos, yMax, tsMs, msgIndex) ==
    [ label |-> "Selected Message",
      data |-> << [x |-> xPos, y |-> 0], [x |-> xPos, y |-> yMax] >>,
      tsMs |-> tsMs,
      msgIndex |-> msgIndex ]

\* findIndex that finds no dataset
find_index_absent(datasets, label) == 0

\* datasets.findIndex(d => d.label === label), as a 1-based index;
\* 0 stands for -1
find_index(datasets, label) ==
    LET found == { k \in DOMAIN datasets : datasets[k].label = label }
    IN  IF found = {} THEN 0 ELSE SetMin(found)

\* datasets.splice(index, 1) for the index findIndex returned: -1 counts
\* from the end and removes the last dataset
splice(datasets, k) ==
    LET at == IF k = 0 THEN Len(datasets) ELSE k
    IN  [ j \in 1..(Len(datasets) - 1) |->
            IF j < at THEN datasets[j] ELSE datasets[j + 1] ]

\* the line's dataset updated in place, or pushed when there is none
with_line(datasets, line) ==
    LET k == find_index(datasets, "Selected Message")
    IN  IF k # 0
        THEN [ datasets EXCEPT ![k].data = line.data,
                               ![k].tsMs = line.tsMs,
                               ![k].msgIndex = line.msgIndex ]
        ELSE Append(datasets, line)

\* datasets[0..n-1].data = the data of the mode
redrawn(datasets, n, message_based) ==
    [ j \in DOMAIN datasets |->
        IF j <= n THEN [ datasets[j] EXCEPT !.message_based = message_based ]
        ELSE datasets[j] ]

page_frame ==
    UNCHANGED << session_file, token_data, user_messages, total_msg_count,
                 user_messages_with_context, index_to_ts, turn_bounds,
                 session_files, session_index, generated_charts,
                 total_token_events, total_user_messages, stdout,
                 args, launches, stat_cards >>

\* the browser runs the script of the chart that was written
LoadPage ==
    /\ pc = "done"
    /\ pc' = "page"
    /\ contextChart' = context_datasets(MESSAGE_BASED_X)
    /\ cumulativeChart' = cumulative_datasets(MESSAGE_BASED_X)
    /\ UNCHANGED MESSAGE_BASED_X
    /\ page_frame

\* a click on a message card, or on its star in one of the charts
HighlightMessage ==
    /\ pc = "page"
    /\ \E card \in Cards :
         LET xPos == IF MESSAGE_BASED_X THEN card.msgIndex ELSE card.tsMs
         IN  /\ contextChart' =
                  with_line(contextChart,
                    SelectedMessage(xPos, contextYMax,
                                    card.tsMs, card.msgIndex))
             /\ cumulativeChart' =
                  with_line(cumulativeChart,
                    SelectedMessage(xPos, cumulativeYMax,
                                    card.tsMs, card.msgIndex))
    /\ UNCHANGED << pc, MESSAGE_BASED_X >>
    /\ page_frame

\* a click on the toggle switch
ToggleXAxis ==
    /\ pc = "page"
    /\ LET contextLineIndex == find_index(contextChart, "Selected Message")
           cumulativeLineIndex ==
             find_index(cumulativeChart, "Selected Message")
           saved == contextLineIndex # 0
           tsMs == contextChart[contextLineIndex].tsMs
           msgIndex == contextChart[contextLineIndex].msgIndex
           context_kept == IF saved
                           THEN splice(contextChart, contextLineIndex)
                           ELSE contextChart
           cumulative_kept == IF saved
                              THEN splice(cumulativeChart, cumulativeLineIndex)
                              ELSE cumulativeChart
           mode == ~MESSAGE_BASED_X
           xPos == IF mode THEN msgIndex ELSE tsMs
           context_redrawn == redrawn(context_kept, 3, mode)
           cumulative_redrawn == redrawn(cumulative_kept, 2, mode)
       IN  /\ MESSAGE_BASED_X' = mode
           /\ contextChart' =
                IF saved
                THEN Append(context_redrawn,
                       SelectedMessage(xPos, contextYMax, tsMs, msgIndex))
                ELSE context_redrawn
           /\ cumulativeChart' =
                IF saved
                THEN Append(cumulative_redrawn,
                       SelectedMessage(xPos, cumulativeYMax, tsMs, msgIndex))
                ELSE cumulative_redrawn
    /\ UNCHANGED pc
    /\ page_frame

\* the session logs a page is generated for
PageLogs ==
    { lines \in UNION { [1..n -> Lines] : n \in 0..MaxRecords } :
        FromSessionStart(lines) }

\* main called with one session file and either x-axis mode
InitPage ==
    \E lines \in PageLogs, time_based_x \in BOOLEAN :
      /\ session_file = lines
      /\ session_files = << Session("a", TRUE, lines) >>
      /\ session_index = 1
      /\ pc = "start"
      /\ NothingYet([ PathCommand EXCEPT !.time_based_x = time_based_x ])

NextPage ==
    \/ ExtractSessionData
    \/ SkipSession
    \/ GenerateHtml
    \/ LoadPage
    \/ HighlightMessage
    \/ ToggleXAxis

SpecPage == InitPage /\ [][NextPage]_vars

\* ====================================================================
\* Properties
\* ====================================================================
Done == pc = "done"

Snapshots == 1..Len(token_data)
Turns == 1..Len(user_messages)

\* the first snapshot, in sequence order, at or after the instant t;
\* the last snapshot of the sequence when there is none
AtOrAfter(t) == { k \in Snapshots : token_data[k].ts_ms >= t }
StartSnapshot(t) ==
    IF AtOrAfter(t) # {} THEN SetMin(AtOrAfter(t)) ELSE Len(token_data)

\* the snapshots strictly before the instant t
Before(t) == { k \in Snapshots : token_data[k].ts_ms < t }

\* snapshots and user turns together carry non-decreasing timestamps
\* by sequence position
Events ==
    { << token_data[k].message_index, token_data[k].ts_ms >> : k \in Snapshots }
    \cup { << user_messages[i].total_msg_index, user_messages[i].ts_ms >> :
             i \in Turns }
WellOrdered == \A a, b \in Events : a[1] < b[1] => a[2] <= b[2]

\* --------------------------------------------------------------------
\* C1: every user turn is matched to the first snapshot of the sequence
\* whose timestamp is >= the turn's timestamp, or to the last snapshot
\* when there is none; contextAtStart and cumulativeAtStart both come
\* from that one snapshot.
C1_MatchingRule ==
    Done =>
      /\ Len(user_messages_with_context) = Len(user_messages)
      /\ \A i \in Turns :
           LET k == StartSnapshot(user_messages[i].ts_ms)
           IN  /\ user_messages_with_context[i].context_tokens
                    = token_data[k].context_tokens
               /\ user_messages_with_context[i].cumulative_total
                    = token_data[k].cumulative_total

\* a turn matched to a later snapshot than the first, whose values differ
\* from the first one's, and a turn after every snapshot (fallback)
C1_Witness ==
    /\ Done
    /\ \E i \in Turns :
         /\ AtOrAfter(user_messages[i].ts_ms) # {}
         /\ StartSnapshot(user_messages[i].ts_ms) > 1
         /\ token_data[StartSnapshot(user_messages[i].ts_ms)].context_tokens
              # token_data[1].context_tokens
         /\ user_messages_with_context[i].context_tokens
              # token_data[1].context_tokens
    /\ \E j \in Turns :
         /\ AtOrAfter(user_messages[j].ts_ms) = {}
         /\ user_messages_with_context[j].cumulative_total
              = token_data[Len(token_data)].cumulative_total

\* --------------------------------------------------------------------
\* C2: durationMs >= 0 for every enriched turn whenever the timestamps of
\* snapshots and user turns together are non-decreasing by position.
C2_DurationNonNegative ==
    (Done /\ WellOrdered) =>
      \A i \in DOMAIN turn_bounds : duration_ms_of(turn_bounds[i]) >= 0

\* --------------------------------------------------------------------
\* C3: costTokens = max(0, contextAtEnd - contextAtStart) for every
\* enriched turn and every input: never negative, and 0 whenever the end
\* context is lower than or equal to the start context.
C3_CostClamped ==
    Done =>
      \A i \in DOMAIN turn_bounds :
        LET b == turn_bounds[i]
            cost == user_messages_with_context[i].cost
        IN  /\ cost >= 0
            /\ b.context_end > b.context_start
                 => cost = b.context_end - b.context_start
            /\ b.context_end <= b.context_start => cost = 0

\* a turn whose end snapshot carries a lower context value than its start
\* snapshot: the difference is negative and the cost is 0
C3_Witness ==
    /\ Done
    /\ \E i \in DOMAIN turn_bounds :
         /\ turn_bounds[i].context_end - turn_bounds[i].context_start < 0
         /\ user_messages_with_context[i].cost = 0

\* --------------------------------------------------------------------
\* C4: for a non-last turn i the end snapshot is the last snapshot of the
\* sequence whose timestamp is strictly less than the timestamp of turn
\* i+1; when there is none the end values are the start values, so that
\* costTokens = 0 and durationMs = 0.
C4_EndBoundaryNonLast ==
    Done =>
      \A i \in DOMAIN turn_bounds :
        i < Len(turn_bounds) =>
          LET S == Before(user_messages[i + 1].ts_ms)
              b == turn_bounds[i]
          IN  IF S # {}
              THEN /\ b.context_end = token_data[SetMax(S)].context_tokens
                   /\ b.time_end = token_data[SetMax(S)].ts_ms
              ELSE /\ b.context_end = b.context_start
                   /\ b.time_end = b.time_start
                   /\ user_messages_with_context[i].cost = 0
                   /\ duration_ms_of(b) = 0
                   /\ user_messages_with_context[i].duration
                        = [unit |-> "s", major |-> 0, minor |-> 0]

\* one non-last turn falls back although a snapshot carries exactly the
\* next turn's timestamp; another non-last turn ends at a snapshot that
\* is not the last one of the sequence
C4_Witness ==
    /\ Done
    /\ \E i \in DOMAIN turn_bounds :
         /\ i < Len(turn_bounds)
         /\ Before(user_messages[i + 1].ts_ms) = {}
         /\ \E k \in Snapshots :
              token_data[k].ts_ms = user_messages[i + 1].ts_ms
    /\ \E j \in DOMAIN turn_bounds :
         /\ j < Len(turn_bounds)
         /\ Before(user_messages[j + 1].ts_ms) # {}
         /\ turn_bounds[j].time_end < user_messages[j + 1].ts_ms

\* --------------------------------------------------------------------
\* C5 (as claimed): for the last turn the boundary is the timestamp of
\* the very last snapshot and the end snapshot is the last snapshot whose
\* timestamp is strictly less than that boundary, with the start values
\* as fallback when there is none.
C5_AsClaimed ==
    (Done /\ turn_bounds # << >>) =>
      LET b == turn_bounds[Len(turn_bounds)]
          S == Before(token_data[Len(token_data)].ts_ms)
      IN  IF S # {}
          THEN /\ b.context_end = token_data[SetMax(S)].context_tokens
               /\ b.time_end = token_data[SetMax(S)].ts_ms
          ELSE /\ b.context_end = b.context_start
               /\ b.time_end = b.time_start

\* C5 (amended): for the last turn contextAtEnd and timestampAtEnd are
\* the context value and the timestamp of the very last snapshot of the
\* sequence itself: no boundary scan is made and there is no fallback to
\* the start values.
C5_EndBoundaryLast ==
    (Done /\ turn_bounds # << >>) =>
      LET b == turn_bounds[Len(turn_bounds)]
      IN  /\ b.context_end = token_data[Len(token_data)].context_tokens
          /\ b.time_end = token_data[Len(token_data)].ts_ms

\* the last turn ends at the last snapshot although an earlier snapshot,
\* with another context value, lies strictly before it
C5_Witness ==
    /\ Done
    /\ turn_bounds # << >>
    /\ Before(token_data[Len(token_data)].ts_ms) # {}
    /\ token_data[SetMax(Before(token_data[Len(token_data)].ts_ms))].context_tokens
         # token_data[Len(token_data)].context_tokens
    /\ turn_bounds[Len(turn_bounds)].time_end
         = token_data[Len(token_data)].ts_ms

\* --------------------------------------------------------------------
\* C6 (as claimed): durationMs = timestampAtEnd - timestampAtStart, where
\* timestampAtStart is the timestamp of the matched start snapshot.
C6_AsClaimed ==
    Done =>
      \A i \in DOMAIN turn_bounds :
        duration_ms_of(turn_bounds[i])
          = turn_bounds[i].time_end
              - token_data[StartSnapshot(user_messages[i].ts_ms)].ts_ms

\* C6 (amended): durationMs = timestampAtEnd - timestampAtStart, where
\* timestampAtStart is the turn's own timestamp; the matched start
\* snapshot supplies contextAtStart only.
C6_DurationFromTurn ==
    Done =>
      \A i \in DOMAIN turn_bounds :
        /\ turn_bounds[i].time_start = user_messages[i].ts_ms
        /\ turn_bounds[i].context_start
             = token_data[StartSnapshot(user_messages[i].ts_ms)].context_tokens
        /\ duration_ms_of(turn_bounds[i])
             = turn_bounds[i].time_end - user_messages[i].ts_ms
        /\ user_messages_with_context[i].duration
             = format_duration(turn_bounds[i].time_end - user_messages[i].ts_ms)

\* a turn whose matched start snapshot is later than the turn itself
C6_Witness ==
    /\ Done
    /\ \E i \in DOMAIN turn_bounds :
         /\ token_data[StartSnapshot(user_messages[i].ts_ms)].ts_ms
              > user_messages[i].ts_ms
         /\ turn_bounds[i].time_start = user_messages[i].ts_ms
         /\ duration_ms_of(turn_bounds[i]) > 0

\* --------------------------------------------------------------------
\* positions of the snapshots, and the range they cover
SnapshotPositions == { token_data[k].message_index : k \in Snapshots }
MinPos == SetMin(SnapshotPositions)
MaxPos == SetMax(SnapshotPositions)
Positions == 1..total_msg_count
Outside == { p \in Positions : p < MinPos \/ p > MaxPos }
Gaps == { p \in Positions : MinPos < p /\ p < MaxPos } \ SnapshotPositions

\* smallest and largest snapshot timestamp, in milliseconds
MinTsMs == SetMin({ token_data[k].ts_ms : k \in Snapshots })
MaxTsMs == SetMax({ token_data[k].ts_ms : k \in Snapshots })

\* timestamp of the snapshot at position p, in milliseconds
TsMsAt(p) ==
    token_data[CHOOSE k \in Snapshots : token_data[k].message_index = p].ts_ms

\* the 'ts' value v denotes the instant n / d milliseconds, rounded to the
\* nearest microsecond and then cut to whole milliseconds
\* (ties go to the even microsecond): the nearest microsecond to
\* 1000 * n / d lies in v .. v + 999, v being a whole, hence even, number
\* of milliseconds
DenotesMs(v, n, d) ==
    /\ v % UsPerMs = 0
    /\ d * (2 * v - 1) <= 2 * UsPerMs * n
    /\ 2 * UsPerMs * n < d * (2 * (v + UsPerMs - 1) + 1)

\* t0 + (p - MinPos) / (MaxPos - MinPos) * (t1 - t0), as numerator over
\* the denominator MaxPos - MinPos
LineNum(p, t0, t1) == t0 * (MaxPos - MinPos) + (p - MinPos) * (t1 - t0)

\* --------------------------------------------------------------------
\* C7 (as claimed): every position of [1, totalRecordCount] below the
\* minimum or above the maximum snapshot position is left unmapped.
C7_AsClaimed ==
    Done => \A p \in Outside : p \notin DOMAIN index_to_ts

\* C7 (amended): positions below the minimum or above the maximum
\* snapshot position are left unmapped only when all snapshots sit at one
\* position (min = max); when max > min every such position of
\* [1, totalRecordCount] is mapped, by the same straight line extended
\* beyond the snapshot range.
C7_Extrapolation ==
    Done =>
      \A p \in Outside :
        IF MaxPos > MinPos
        THEN /\ p \in DOMAIN index_to_ts
             /\ DenotesMs(index_to_ts[p], LineNum(p, MinTsMs, MaxTsMs),
                          MaxPos - MinPos)
        ELSE p \notin DOMAIN index_to_ts

\* positions below and above the snapshot range are mapped, to instants
\* before the first and after the last snapshot
C7_Witness ==
    /\ Done
    /\ \E p, q \in Outside :
         /\ p < MinPos
         /\ q > MaxPos
         /\ {p, q} \subseteq DOMAIN index_to_ts
         /\ index_to_ts[p] < MinTsMs * UsPerMs
         /\ index_to_ts[q] > MaxTsMs * UsPerMs

\* --------------------------------------------------------------------
\* C8 (as claimed): every position p strictly between the minimum and the
\* maximum snapshot position that has no snapshot of its own is mapped to
\* t(min) + (p - min) / (max - min) * (t(max) - t(min)), t(min) and t(max)
\* being the timestamps of the snapshots at the minimum and maximum
\* snapshot positions.
C8_AsClaimed ==
    Done =>
      \A p \in Gaps :
        /\ p \in DOMAIN index_to_ts
        /\ DenotesMs(index_to_ts[p],
                     LineNum(p, TsMsAt(MinPos), TsMsAt(MaxPos)),
                     MaxPos - MinPos)

\* snapshots only at positions 1 (t=0) and 10 (t=900): position 5
Example8 ==
    << [ts |-> 0, ts_ms |-> 0, message_index |-> 1],
       [ts |-> 900 * UsPerMs, ts_ms |-> 900, message_index |-> 10] >>

\* C8 (amended): every such position p is mapped to
\* t0 + (p - min) / (max - min) * (t1 - t0), rounded to the nearest
\* microsecond and cut to whole milliseconds, where t0 and t1 are the
\* smallest and the largest timestamp among all snapshots; they are the
\* timestamps at the minimum and maximum snapshot positions when the
\* snapshot timestamps are non-decreasing by position (positions 1 (t=0)
\* and 10 (t=900) give t(5)=400).
C8_InterpolationFormula ==
    Done =>
      /\ \A p \in Gaps :
           /\ p \in DOMAIN index_to_ts
           /\ DenotesMs(index_to_ts[p], LineNum(p, MinTsMs, MaxTsMs),
                        MaxPos - MinPos)
      /\ WellOrdered =>
           \A p \in Gaps :
             DenotesMs(index_to_ts[p],
                       LineNum(p, TsMsAt(MinPos), TsMsAt(MaxPos)),
                       MaxPos - MinPos)
      /\ build_index_to_ts(Example8, 10)[5] = 400 * UsPerMs

\* a gap position whose mapped instant is not a whole number of
\* milliseconds on the line, in a session with ordered timestamps
C8_Witness ==
    /\ Done
    /\ WellOrdered
    /\ \E p \in Gaps :
         /\ LineNum(p, MinTsMs, MaxTsMs) % (MaxPos - MinPos) # 0
         /\ index_to_ts[p] > MinTsMs * UsPerMs

\* --------------------------------------------------------------------
\* nearest snapshot positions below and above a gap position
LowerPos(p) == SetMax({ q \in SnapshotPositions : q < p })
UpperPos(p) == SetMin({ q \in SnapshotPositions : q > p })

\* the 'ts' value v, cut to whole milliseconds, denotes an instant
\* between a and b milliseconds
Between(v, a, b) ==
    \/ (a * UsPerMs < v + UsPerMs /\ v <= b * UsPerMs)
    \/ (b * UsPerMs < v + UsPerMs /\ v <= a * UsPerMs)

C10_ExactAtSnapshots ==
    Done =>
      \A k \in Snapshots :
        /\ token_data[k].message_index \in DOMAIN index_to_ts
        /\ index_to_ts[token_data[k].message_index] = token_data[k].ts

\* a snapshot off the interpolation line, in a map that also holds
\* interpolated entries
C10_Witness ==
    /\ Done
    /\ DOMAIN index_to_ts # SnapshotPositions
    /\ \E k \in Snapshots :
         /\ MaxPos > MinPos
         /\ index_to_ts[token_data[k].message_index]
              # interpolated_ts(interpolation_ends(token_data),
                                token_data[k].message_index)

\* ====================================================================
\* Properties of the ingestion (SpecIngest)
\* ====================================================================
Extracted == pc \in {"extracted", "skipped", "done"}

\* --------------------------------------------------------------------
\* C11: the total record count returned by extract_session_data equals
\* the number of lines of the log, for every input, counting blank
\* lines, malformed lines and lines of unknown shape.
C11_TotalCountsEveryLine ==
    Extracted => total_msg_count = Len(session_file)

\* a log that holds a blank line, a malformed line and a line of unknown
\* shape, all counted
C11_Witness ==
    /\ Extracted
    /\ total_msg_count = MaxRecords
    /\ { session_file[i].kind : i \in DOMAIN session_file }
         = { "blank", "invalid_json", "other" }

\* --------------------------------------------------------------------
\* the log with every failing line replaced by a line of unknown shape
Neutralised(lines) ==
    [ i \in DOMAIN lines |->
        IF lines[i].kind \in FailingKinds \cup {"bad_payload"}
        THEN Line("other", 0, NoUsage) ELSE lines[i] ]

\* C12: a record that fails to parse (invalid JSON, non-object record,
\* non-object payload or info, missing or unparseable timestamp)
\* contributes no snapshot and no turn, still counts toward the total,
\* never aborts the scan, and every other record yields exactly the event
\* it would yield without the failing records' content.
C12_FailSoftIsolated ==
    Extracted =>
      /\ \A i \in DOMAIN session_file :
           session_file[i].kind \in FailingKinds \cup {"bad_payload"} =>
             /\ \A k \in DOMAIN token_data : token_data[k].message_index # i
             /\ \A k \in DOMAIN user_messages :
                  user_messages[k].total_msg_index # i
      /\ total_msg_count = Len(session_file)
      /\ \A i \in DOMAIN session_file :
           /\ session_file[i].kind = "token_count" =>
                \E k \in DOMAIN token_data : token_data[k].message_index = i
           /\ session_file[i].kind = "user_message" =>
                \E k \in DOMAIN user_messages :
                  user_messages[k].total_msg_index = i
      /\ << token_data, user_messages, total_msg_count >>
           = extract_session_data(Neutralised(session_file))

\* --------------------------------------------------------------------
\* C14: the k-th user turn of the Ingestor's output has turnIndex
\* (user_msg_index) k, with no gaps, also when user-message records
\* earlier in the log were skipped for an unparseable timestamp.
C14_TurnIndexOrdinal ==
    Extracted =>
      \A k \in DOMAIN user_messages : user_messages[k].user_msg_index = k

\* --------------------------------------------------------------------
\* a log whose every line parses: token counts, user messages and
\* records of other shapes
ValidLog == \A i \in DOMAIN session_file : session_file[i].kind \notin FailingKinds

\* lines that json.loads rejects or that hold no JSON object
UnparseableKinds == { "blank", "invalid_json", "non_object" }

\* the log with one line of the given kind inserted as line p
Inserted(lines, p, kind) ==
    SubSeq(lines, 1, p - 1) \o << Line(kind, 0, NoUsage) >>
      \o SubSeq(lines, p, Len(lines))

\* the snapshots with the positions at or after p moved one line down
ShiftedSnapshots(tokens, p) ==
    [ k \in DOMAIN tokens |->
        IF tokens[k].message_index >= p
        THEN [ tokens[k] EXCEPT !.message_index = @ + 1 ] ELSE tokens[k] ]

\* the turns with the positions at or after p moved one line down
ShiftedTurns(messages, p) ==
    [ k \in DOMAIN messages |->
        IF messages[k].total_msg_index >= p
        THEN [ messages[k] EXCEPT !.total_msg_index = @ + 1 ] ELSE messages[k] ]

\* C13 as claimed: inserting one unparseable line into a valid log at any
\* point changes only the total record count; the snapshot sequence and
\* the user-turn sequence, sequencePosition and turnIndex included, are
\* identical to those of the original log.
C13_AsClaimed ==
    (Extracted /\ ValidLog) =>
      \A p \in 1..(Len(session_file) + 1) : \A kind \in UnparseableKinds :
        LET r == extract_session_data(Inserted(session_file, p, kind)) IN
        /\ r[1] = token_data
        /\ r[2] = user_messages
        /\ r[3] = total_msg_count + 1

\* C13 (amended): inserting one unparseable line as line p of a valid log
\* raises the total record count by one and moves the sequencePosition of
\* every snapshot and turn whose record was at line p or later up by one;
\* every other field, turnIndex included, and the number and order of
\* snapshots and turns are unchanged.
C13_InsertionShiftsPositions ==
    (Extracted /\ ValidLog) =>
      \A p \in 1..(Len(session_file) + 1) : \A kind \in UnparseableKinds :
        LET r == extract_session_data(Inserted(session_file, p, kind)) IN
        /\ r[1] = ShiftedSnapshots(token_data, p)
        /\ r[2] = ShiftedTurns(user_messages, p)
        /\ r[3] = total_msg_count + 1

C13_Witness ==
    /\ Extracted /\ ValidLog
    /\ Len(token_data) >= 1 /\ Len(user_messages) >= 2
    /\ LET r == extract_session_data(Inserted(session_file, 2, "invalid_json")) IN
       /\ r[1][1].message_index = 1
       /\ r[2][1].total_msg_index = 3
       /\ r[2][2].user_msg_index = 2

\* ====================================================================
\* Properties of the correlation and of the position-time map (Spec)
\* ====================================================================
\* C15: when the snapshot sequence is non-empty there is exactly one
\* enriched turn for every user turn, in the same order and with the same
\* turnIndex, sequencePosition, timestamp and text, and every enriched
\* turn carries a cost and a duration.
C15_OneEnrichedTurnPerTurn ==
    Done =>
      /\ Len(user_messages_with_context) = Len(user_messages)
      /\ \A i \in Turns :
           LET e == user_messages_with_context[i] IN
           /\ e.user_msg_index = user_messages[i].user_msg_index
           /\ e.total_msg_index = user_messages[i].total_msg_index
           /\ e.ts = user_messages[i].ts
           /\ e.ts_ms = user_messages[i].ts_ms
           /\ e.message = user_messages[i].message
           /\ {"cost", "duration"} \subseteq DOMAIN e
           /\ e.cost \in Nat

C15_Witness ==
    /\ Done
    /\ Len(user_messages_with_context) >= 2
    /\ \E i, j \in Turns :
         /\ AtOrAfter(user_messages[i].ts_ms) # {}
         /\ AtOrAfter(user_messages[j].ts_ms) = {}

\* --------------------------------------------------------------------
\* cumulative_total does not decrease along the snapshot sequence
CumulativeNonDecreasing ==
    \A j, k \in Snapshots :
      j < k => token_data[j].cumulative_total <= token_data[k].cumulative_total

\* the totals recorded in the log's token_count lines, in line order, do
\* not decrease
LogTotalsNonDecreasing ==
    \A i, j \in DOMAIN session_file :
      (/\ i < j
       /\ session_file[i].kind = "token_count"
       /\ session_file[j].kind = "token_count")
      => session_file[i].usage.cumulative_total
           <= session_file[j].usage.cumulative_total

\* C19 as claimed: for every non-empty snapshot sequence produced by
\* extract_session_data, cumulative_total is non-decreasing across
\* ascending sequencePosition.
C19_AsClaimed == (Extracted /\ token_data # << >>) => CumulativeNonDecreasing

\* C19 (amended): every snapshot's cumulative_total is the value recorded
\* in its own log record, copied unchanged; the snapshot sequence is
\* non-decreasing in cumulative_total exactly when the values recorded
\* in the log are.
C19_CumulativeCopied ==
    Extracted =>
      /\ \A k \in Snapshots :
           token_data[k].cumulative_total
             = session_file[token_data[k].message_index].usage.cumulative_total
      /\ CumulativeNonDecreasing <=> LogTotalsNonDecreasing

C19_Witness ==
    /\ Extracted
    /\ Len(token_data) >= 2
    /\ ~CumulativeNonDecreasing
    /\ ~LogTotalsNonDecreasing

\* --------------------------------------------------------------------
\* C20: when the smallest and the largest snapshot position coincide (a
\* single snapshot), the position-time map contains exactly that one
\* position and no other, whatever the total record count.
C20_DegenerateInterpolation ==
    (Done /\ MinPos = MaxPos) => DOMAIN index_to_ts = { MinPos }

C20_Witness ==
    /\ Done
    /\ MinPos = MaxPos
    /\ total_msg_count >= 3
    /\ 1 < MinPos /\ MinPos < total_msg_count
    /\ DOMAIN index_to_ts = { MinPos }

\* ====================================================================
\* Properties of main's loop over the sessions (SpecBatch)
\* ====================================================================
\* the run is over: the summary was printed, or an exception left main
BatchEnded == pc \in {"summary", "crashed"}

Range(seq) == { seq[i] : i \in DOMAIN seq }

\* the sessions a notice was printed for
Analysed == { j \in DOMAIN session_files : << "Analyzing session", j >> \in Range(stdout) }
Skipped == { j \in DOMAIN session_files : << "Skipping (no token data)", j >> \in Range(stdout) }

\* the snapshots the session's log yields
SnapshotsOf(j) == extract_session_data(session_files[j].lines)[1]

Chartable(j) ==
    /\ session_files[j].readable
    /\ SnapshotsOf(j) # << >>
    /\ SnapshotsOf(j)[1].model_context_window # 0

\* C17: a failure while analysing one session (an unreadable log file, a
\* snapshot whose window capacity is 0) does not abort the batch: when
\* the run is over every session of the list has been analysed and every
\* session that yields a chart on its own has its chart.
C17_BatchIsolation ==
    BatchEnded =>
      /\ Analysed = DOMAIN session_files
      /\ \A j \in DOMAIN session_files :
           Chartable(j) => j \in Range(generated_charts)

\* ====================================================================
\* Properties of the two passes over a growing file (SpecLive)
\* ====================================================================
\* C18: the counting pass and the classifying pass agree, also for a log
\* appended to while it is analysed: every snapshot's and every turn's
\* sequencePosition lies in 1..total_msg_count, positions increase
\* strictly within each sequence, and every key of the position-time map
\* lies in 1..total_msg_count.
C18_PassesAgree ==
    Extracted =>
      /\ \A k \in Snapshots : token_data[k].message_index \in Positions
      /\ \A i \in Turns : user_messages[i].total_msg_index \in Positions
      /\ \A j, k \in Snapshots :
           j < k => token_data[j].message_index < token_data[k].message_index
      /\ \A i, j \in Turns :
           i < j => user_messages[i].total_msg_index < user_messages[j].total_msg_index
      /\ DOMAIN index_to_ts \subseteq Positions

\* --------------------------------------------------------------------
\* the last snapshot of the sequence
LastSnapshot == token_data[Len(token_data)]

\* the 'Context usage' figure main printed last, in tenths of a percent
ConsoleUsage == stdout[Len(stdout)][2]

\* v is n / d rounded to the nearest integer (d > 0)
Nearest(v, n, d) == 2 * v * d - d <= 2 * n /\ 2 * n <= 2 * v * d + d

\* C25: the final window usage and the final cumulative total are the
\* context_tokens and cumulative_total of the last snapshot; the usage
\* percentage is that context_tokens divided by the session's window
\* capacity, and the capacity is the same value, the first snapshot's, in
\* the chart and in the console summary, also when the snapshots of the
\* session carry different capacities.
C25_SummaryFigures ==
    Done =>
      /\ stat_cards.final_context = LastSnapshot.context_tokens
      /\ stat_cards.total = LastSnapshot.cumulative_total
      /\ stat_cards.model_cw = token_data[1].model_context_window
      /\ Nearest(stat_cards.usage, 1000 * LastSnapshot.context_tokens,
                 stat_cards.model_cw)
      /\ stdout[Len(stdout) - 2] = << "Final context", stat_cards.final_context >>
      /\ stdout[Len(stdout) - 1] = << "Cumulative total", stat_cards.total >>
      /\ stdout[Len(stdout)][1] = "Context usage"
      /\ ConsoleUsage = stat_cards.usage

C25_Witness ==
    /\ Done
    /\ \E k \in Snapshots :
         token_data[k].model_context_window # token_data[1].model_context_window
    /\ stat_cards.model_cw # DefaultContextWindow
    /\ ConsoleUsage = stat_cards.usage
    /\ stat_cards.usage > 0

\* --------------------------------------------------------------------
\* the turns the session's log yields
TurnsOf(j) == extract_session_data(session_files[j].lines)[2]

RECURSIVE SumOver(_, _)
SumOver(f, n) == IF n = 0 THEN 0 ELSE f[n] + SumOver(f, n - 1)

\* the output path of the k-th generated chart
ChartPath(k) == output_path(session_files[generated_charts[k]])

\* C30: after the per-session loop, generated_charts has exactly one
\* entry for each analysed session that had at least one snapshot, in
\* processing order and each at a distinct output path, and the reported
\* totals of token events and user messages sum over all sessions of the
\* list, skipped ones included.
C30_BatchAccounting ==
    pc = "summary" =>
      /\ Range(generated_charts)
           = { j \in DOMAIN session_files : SnapshotsOf(j) # << >> }
      /\ \A i, k \in DOMAIN generated_charts :
           i < k => generated_charts[i] < generated_charts[k]
      /\ \A i, k \in DOMAIN generated_charts :
           i # k => ChartPath(i) # ChartPath(k)
      /\ << "Total token events",
            SumOver([ j \in DOMAIN session_files |-> Len(SnapshotsOf(j)) ],
                    Len(session_files)) >> \in Range(stdout)
      /\ << "Total user messages",
            SumOver([ j \in DOMAIN session_files |-> Len(TurnsOf(j)) ],
                    Len(session_files)) >> \in Range(stdout)

\* ====================================================================
\* Properties of the viewer launches (SpecViewer)
\* ====================================================================
\* the launches that did not open the viewer
FailedLaunches == { k \in DOMAIN launches : launches[k].outcome # "opened" }

\* the launches come after the loop over the sessions, one per generated
\* chart and in the order of generated_charts
LaunchesFollowAnalysis ==
    /\ launches # << >> => (pc = "summary" /\ Analysed = DOMAIN session_files)
    /\ Len(launches) <= Len(generated_charts)
    /\ \A k \in DOMAIN launches : launches[k].chart = generated_charts[k]

\* C22: the viewer is launched only after every session of the batch has
\* been analysed and its chart written; a failure to launch the viewer
\* for one chart is reported as a warning, does not end the run and does
\* not prevent the launch attempts for the remaining charts.
C22_ViewerNeverFatal ==
    /\ LaunchesFollowAnalysis
    /\ \A k \in FailedLaunches :
         << "Warning: Could not auto-open", launches[k].chart >> \in Range(stdout)

\* ====================================================================
\* Properties of the command line (SpecCli)
\* ====================================================================
\* the selection criteria the command line carries
CriteriaGiven ==
    { name \in {"session_file", "latest", "hours", "day", "since"} :
        args[name] # "absent" }

\* no session file has been located, opened or analysed
NothingLocated == session_files = << >> /\ stdout = << >> /\ token_data = << >>

\* C21: when no selection criterion is given, or more than one of
\* session file/UUID, --latest, --hours, --day, --since is given, the
\* invocation ends with an error and no session file is located, opened
\* or analysed.
C21_AmbiguousSelectionFatal ==
    (pc # "invoked" /\ Cardinality(CriteriaGiven) # 1) =>
      (pc = "exit_2_error" /\ NothingLocated)

\* ====================================================================
\* Properties of generate_html's inputs (SpecIngest)
\* ====================================================================
\* the fields of a turn as extract_session_data returns it
TurnFields == {"ts", "ts_ms", "message", "user_msg_index", "total_msg_index"}

\* the fields generate_html derives for a turn
DerivedFields == {"context_tokens", "cumulative_total", "cost", "duration"}

\* C24: generate_html leaves token_data and user_messages as it received
\* them, in length, order and field values; the derived fields are
\* written only to the enriched records it creates.
C24_InputsUntouched ==
    Done =>
      /\ token_data = extract_session_data(session_file)[1]
      /\ user_messages = extract_session_data(session_file)[2]
      /\ \A i \in DOMAIN user_messages :
           DOMAIN user_messages[i] = TurnFields
      /\ \A i \in DOMAIN user_messages_with_context :
           DerivedFields \subseteq DOMAIN user_messages_with_context[i]

\* a chart was generated for a session that holds a turn
C24_Witness ==
    Done /\ user_messages # << >> /\ user_messages_with_context # << >>

\* ====================================================================
\* Properties of the order of snapshots and turns (SpecIngest)
\* ====================================================================
\* the positions of the log's lines of one kind
LinesOfKind(kind) ==
    { p \in DOMAIN session_file : session_file[p].kind = kind }

\* the events of a sequence stand in ascending log position, one event
\* for each line of the kind, with the timestamp of its line
InLogOrder(events, position, kind) ==
    /\ \A i, j \in DOMAIN events :
         i < j => events[i][position] < events[j][position]
    /\ { events[i][position] : i \in DOMAIN events } = LinesOfKind(kind)
    /\ \A i \in DOMAIN events :
         events[i].ts = session_file[events[i][position]].ts

\* the snapshot at the least log position among those at or after the
\* instant t; the one at the greatest log position when there is none
FirstInLogOrder(t) ==
    LET after == { k \in DOMAIN token_data : token_data[k].ts_ms >= t }
        among == IF after = {} THEN DOMAIN token_data ELSE after
        pos(k) == token_data[k].message_index
    IN  IF after = {}
        THEN CHOOSE k \in among : \A m \in among : pos(m) <= pos(k)
        ELSE CHOOSE k \in among : \A m \in among : pos(k) <= pos(m)

\* C23: for every log, logs with out-of-order timestamps included, the
\* snapshots and the turns stand in log order and none is sorted away,
\* deduplicated or dropped; the matching scans the snapshots in that
\* order and keeps every turn, in order.
C23_OrderNeverFixed ==
    /\ Extracted =>
         /\ InLogOrder(token_data, "message_index", "token_count")
         /\ InLogOrder(user_messages, "total_msg_index", "user_message")
    /\ Done =>
         /\ Len(user_messages_with_context) = Len(user_messages)
         /\ \A i \in DOMAIN user_messages_with_context :
              LET enriched == user_messages_with_context[i]
                  k == FirstInLogOrder(user_messages[i].ts_ms)
              IN  /\ enriched.total_msg_index
                       = user_messages[i].total_msg_index
                  /\ enriched.cumulative_total
                       = token_data[k].cumulative_total

\* two snapshots whose timestamps run against the log order, and a turn
\* matched to the earlier one of the log although the later one of the
\* log is the earlier in time at or after the turn
C23_Witness ==
    /\ Done
    /\ \E k, m \in DOMAIN token_data :
         /\ k < m
         /\ token_data[k].ts_ms > token_data[m].ts_ms
         /\ token_data[k].cumulative_total # token_data[m].cumulative_total
         /\ \E i \in DOMAIN user_messages_with_context :
              /\ user_messages[i].ts_ms <= token_data[m].ts_ms
              /\ k = FirstInLogOrder(user_messages[i].ts_ms)
              /\ user_messages_with_context[i].cumulative_total
                   = token_data[k].cumulative_total

\* ====================================================================
\* Properties of well-ordered snapshot sequences (Spec)
\* ====================================================================
\* the snapshot timestamps are non-decreasing by sequence position
SnapshotsOrdered ==
    \A k, m \in Snapshots : k < m => token_data[k].ts_ms <= token_data[m].ts_ms

\* --------------------------------------------------------------------
\* C28: when the snapshot timestamps are non-decreasing by sequence
\* position, the position-time map is monotone: for all mapped positions
\* p < q the mapped time of p is <= the mapped time of q, interpolated
\* positions between snapshots at three or more positions included.
C28_MapMonotone ==
    (Done /\ SnapshotsOrdered) =>
      \A p, q \in DOMAIN index_to_ts :
        p < q => index_to_ts[p] <= index_to_ts[q]

\* the snapshots whose timestamp lies in the window of the non-last turn
\* i: from the turn's timestamp up to, not including, the next turn's
InWindow(i) ==
    { k \in Snapshots :
        /\ user_messages[i].ts_ms <= token_data[k].ts_ms
        /\ token_data[k].ts_ms < user_messages[i + 1].ts_ms }

\* --------------------------------------------------------------------
\* C26: under well-ordered input the end snapshot chosen for a turn is
\* never earlier in the snapshot sequence than the turn's matched start
\* snapshot, and a non-last turn with no snapshot whose timestamp lies in
\* [turn timestamp, next turn timestamp) gets costTokens = 0.
C26_CostWithinWindow ==
    (Done /\ WellOrdered) =>
      \A i \in DOMAIN turn_bounds :
        i < Len(turn_bounds) =>
          /\ Before(user_messages[i + 1].ts_ms) # {}
               => SetMax(Before(user_messages[i + 1].ts_ms))
                    >= StartSnapshot(user_messages[i].ts_ms)
          /\ InWindow(i) = {} => user_messages_with_context[i].cost = 0

\* the snapshot that ends turn i: the one found by the backward scan for
\* the next turn's timestamp, 0 when there is none
EndSnapshotOf(i) ==
    latest_before(token_data, user_messages[i + 1].ts_ms, Len(token_data))

\* the snapshot found by the forward scan for turn i, 0 when there is none
ScanStartOf(i) == closest_token(token_data, user_messages[i].ts_ms, 1)

\* --------------------------------------------------------------------
\* C27: when the snapshot timestamps are non-decreasing in sequence
\* order, for every non-last turn i for which both exist, the end
\* snapshot of turn i is the immediate predecessor, in the snapshot
\* sequence, of the matched start snapshot of turn i+1: no snapshot lies
\* between them and none is shared by both.
C27_WindowsTile ==
    (Done /\ SnapshotsOrdered) =>
      \A i \in DOMAIN turn_bounds :
        (i < Len(turn_bounds) /\ EndSnapshotOf(i) # 0 /\ ScanStartOf(i + 1) # 0)
          => /\ ScanStartOf(i + 1) = EndSnapshotOf(i) + 1
             /\ turn_bounds[i].context_end
                  = token_data[EndSnapshotOf(i)].context_tokens
             /\ turn_bounds[i].time_end = token_data[EndSnapshotOf(i)].ts_ms
             /\ turn_bounds[i + 1].context_start
                  = token_data[ScanStartOf(i + 1)].context_tokens

\* a non-last turn that ends at one snapshot while the next turn starts
\* at the following one, the two holding different context sizes
C27_Witness ==
    /\ Done
    /\ SnapshotsOrdered
    /\ \E i \in DOMAIN turn_bounds :
         /\ i < Len(turn_bounds)
         /\ EndSnapshotOf(i) # 0
         /\ ScanStartOf(i + 1) = EndSnapshotOf(i) + 1
         /\ turn_bounds[i].context_end # turn_bounds[i + 1].context_start

\* ====================================================================
\* Properties of the page's script (SpecPage)
\* ====================================================================
\* the 'Selected Message' datasets of a chart
MarkersOf(datasets) ==
    { k \in DOMAIN datasets : datasets[k].label = "Selected Message" }

\* the labels of the first n datasets of a chart
BaseLabels(datasets, n) ==
    IF Len(datasets) >= n THEN [ k \in 1..n |-> datasets[k].label ]
    ELSE << >>

\* the marker stands for a card of the page, at the x position of the
\* current mode
MarksACard(marker) ==
    /\ \E card \in Cards :
         card.tsMs = marker.tsMs /\ card.msgIndex = marker.msgIndex
    /\ \A k \in DOMAIN marker.data :
         marker.data[k].x = IF MESSAGE_BASED_X THEN marker.msgIndex
                            ELSE marker.tsMs

\* C29: after any sequence of highlightMessage(card) and toggleXAxis()
\* calls each chart holds at most one 'Selected Message' dataset, one
\* chart holds it if and only if the other does, both stand for the same
\* card, the x position is msgIndex when MESSAGE_BASED_X and tsMs
\* otherwise, and the three base datasets of the context chart and the
\* two of the cumulative chart are never removed.
C29_SelectedMarker ==
    pc = "page" =>
      /\ Cardinality(MarkersOf(contextChart)) <= 1
      /\ Cardinality(MarkersOf(cumulativeChart)) <= 1
      /\ MarkersOf(contextChart) # {} <=> MarkersOf(cumulativeChart) # {}
      /\ \A a \in MarkersOf(contextChart), b \in MarkersOf(cumulativeChart) :
           /\ contextChart[a].tsMs = cumulativeChart[b].tsMs
           /\ contextChart[a].msgIndex = cumulativeChart[b].msgIndex
           /\ MarksACard(contextChart[a])
           /\ MarksACard(cumulativeChart[b])
      /\ BaseLabels(contextChart, 3)
           = << "Context Window Tokens", "User Messages",
                "Model Context Window Limit" >>
      /\ BaseLabels(cumulativeChart, 2)
           = << "Cumulative Total Tokens", "User Messages" >>

\* a card is selected and the x-axis is not in the mode the page was
\* loaded in; the card's timestamp and position differ
C29_Witness ==
    /\ pc = "page"
    /\ MESSAGE_BASED_X = args.time_based_x
    /\ \E a \in MarkersOf(contextChart) :
         /\ contextChart[a].tsMs # contextChart[a].msgIndex
         /\ Cardinality(Cards) >= 2

====
